---- MODULE Spec2Model ----
(***************************************************************************)
(* The room hub of samary-chat: class Chat of the server (one instance per *)
(* room).  The hub keeps the room's chat history, the direct-message       *)
(* history, the set of online users and the attribution of connections to  *)
(* users in memory, mirrors both histories in two SQL tables, and relays    *)
(* every inbound event to the room's connections.                          *)
(*                                                                         *)
(* Strings that the code splices into SQL text (the fields of a room       *)
(* message) are sequences of one-character strings, so that                *)
(* JSON.stringify and SQL's quoting act on them character by character.    *)
(* Strings that are only stored, compared or bound as SQL parameters       *)
(* (user ids, direct-message fields, connection ids) are atoms.            *)
(***************************************************************************)
EXTENDS Integers, Sequences, FiniteSets, TLC

VARIABLES
    connections,        \* the ids of the room's open connections
    messages,           \* Chat.messages
    directMessages,     \* Chat.directMessages
    onlineUsers,        \* Chat.onlineUsers, a JS Set: in insertion order
    connectionUsers,    \* Chat.connectionUsers, a JS Map: connection id -> user id
    sqlMessages,        \* the rows of table messages, in rowid order
    sqlDirectMessages,  \* the rows of table direct_messages, in rowid order
    sent,               \* what the last handler sent, per connection, in order
    threw,              \* whether the last handler ended by throwing
    last,               \* the last handler's call: its name, its connection and text,
                        \* the user id onClose read (line 661), whether saveMessage
                        \* found the id (line 681), and whether the call repeats the
                        \* call before it, which had not found the id
    lastEvent,          \* per room-message id, the last add/update event handled
    clients,            \* per connection, the state of the ChatApp behind it
    auth,               \* the tables of the Auth store, and the clock it reads
    http                \* the last HTTP request the worker answered, and how

vars == <<connections, messages, directMessages, onlineUsers, connectionUsers,
          sqlMessages, sqlDirectMessages, sent, threw, last, lastEvent, clients,
          auth, http>>

\* What no handler of the room hub touches.
beyondHub == <<clients, auth, http>>

\* What no handler of the room hub and no component touches.
beyondRoom == <<auth, http>>

\* What the room hub owns.
room == <<connections, messages, directMessages, onlineUsers, connectionUsers,
          sqlMessages, sqlDirectMessages, sent, threw, last, lastEvent>>

(***************************************************************************)
(* Bounds.                                                                 *)
(***************************************************************************)
NumConns == 3
NumHistoryConns == 2
MaxDirect == 3
\* The last reading of the clock.
MaxNow == 2
\* The users do nothing new while this many sent events await the hub.
MaxOut == 1
\* The number of invitation ids.
NumInvites == 9

Conns == 1..NumConns

\* The connections that open in the runs about the two histories.
HistoryConns == 1..NumHistoryConns

(***************************************************************************)
(* Characters and strings.                                                 *)
(***************************************************************************)
DQ == "\""
SQ == "'"
BS == "\\"
NL == "\n"

Range(s) == {s[i] : i \in 1..Len(s)}

\* An absent property of a JS object, and the absent value of Map.get.
Absent == "(absent)"

\* message.name in JS: undefined when the object has no such property.
Prop(message, name) ==
    IF name \in DOMAIN message THEN message[name] ELSE Absent

RoleUser == <<"u", "s", "e", "r">>
RoleAssistant == <<"a", "s", "s", "i", "s", "t", "a", "n", "t">>
AuthorA == <<"A">>

IdM1 == <<"m", "1">>
IdM2 == <<"m", "2">>
IdM3 == <<"m", "3">>

Hi == <<"h", "i">>
HiBang == <<"h", "i", "!">>
Quoted == <<DQ, "h", DQ>>
Slash == <<"a", BS, "b">>
ColId == <<"i", "d">>

(***************************************************************************)
(* JSON.stringify of a string: the characters between double quotes, with  *)
(* the double quote, the backslash and the line feed escaped.              *)
(***************************************************************************)
JsonEscapeChar(ch) ==
    IF ch = DQ THEN <<BS, DQ>>
    ELSE IF ch = BS THEN <<BS, BS>>
    ELSE IF ch = NL THEN <<BS, "n">>
    ELSE <<ch>>

RECURSIVE JsonEscape(_)
JsonEscape(s) ==
    IF s = <<>> THEN <<>> ELSE JsonEscapeChar(Head(s)) \o JsonEscape(Tail(s))

JsonStringifyString(s) == <<DQ>> \o JsonEscape(s) \o <<DQ>>

(***************************************************************************)
(* SQLite's reading of a quoted token that starts at lit[1] with the quote *)
(* q: it ends at the first q that is not doubled, a doubled q stands for   *)
(* one q, and a backslash is an ordinary character.  The splice is read as *)
(* one value only when the token ends where the splice ends; if it ends    *)
(* sooner, the rest of the splice is read as SQL, and if it does not end,  *)
(* the token swallows the statement: in both cases the statement built in  *)
(* saveMessage does not parse (ok = FALSE).                                *)
(***************************************************************************)
RECURSIVE SqlScan(_, _, _, _)
SqlScan(lit, q, i, acc) ==
    IF i > Len(lit) THEN [ok |-> FALSE, val |-> acc]
    ELSE IF lit[i] = q
         THEN IF i < Len(lit) /\ lit[i + 1] = q
              THEN SqlScan(lit, q, i + 2, Append(acc, q))
              ELSE [ok |-> i = Len(lit), val |-> acc]
         ELSE SqlScan(lit, q, i + 1, Append(acc, lit[i]))

SqlQuoted(lit, q) == SqlScan(lit, q, 2, <<>>)

\* '${s}' in the statement's text.
SqlSingle(s) == SqlQuoted(<<SQ>> \o s \o <<SQ>>, SQ)

\* ${JSON.stringify(s)} in the statement's text.
SqlDouble(s) == SqlQuoted(JsonStringifyString(s), DQ)

(***************************************************************************)
(* A double-quoted token is an identifier where one resolves: in the SET   *)
(* clause of the upsert it names a column of the existing row when it is   *)
(* spelled like one, and is a string literal otherwise.  In the VALUES     *)
(* list no column is in scope and it is always a string literal.           *)
(***************************************************************************)
SqlSetValue(tok, row) ==
    IF tok = <<"i", "d">> THEN row.id
    ELSE IF tok = <<"u", "s", "e", "r">> THEN row.user
    ELSE IF tok = <<"r", "o", "l", "e">> THEN row.role
    ELSE IF tok = <<"c", "o", "n", "t", "e", "n", "t">> THEN row.content
    ELSE tok

(***************************************************************************)
(* Texts on the wire.  A text is the JSON encoding of an object; enc tells *)
(* apart the encodings of one object ("canon" is what JSON.stringify       *)
(* writes, "alt" the same object with other spacing or key order) and the  *)
(* texts that are no JSON at all ("bad").                                  *)
(***************************************************************************)
JsonStringify(obj) == [enc |-> "canon", obj |-> obj]

JsonParse(text) ==
    IF text.enc = "bad" THEN [ok |-> FALSE, obj |-> [type |-> Absent]]
    ELSE [ok |-> TRUE, obj |-> text.obj]

NoText == [enc |-> "none", obj |-> [type |-> Absent]]

NothingSent == [c \in Conns |-> <<>>]

\* Server.broadcast(text, without) of partyserver over the connections open.
Broadcast(open, text, without) ==
    [d \in Conns |-> IF d \in open /\ d \notin without THEN <<text>> ELSE <<>>]

\* Two rounds of sends, one after the other.
Then(s1, s2) == [d \in Conns |-> s1[d] \o s2[d]]

(***************************************************************************)
(* The JS Set onlineUsers, kept in insertion order.                        *)
(***************************************************************************)
SetHas(set, x) == x \in Range(set)
SetAdd(set, x) == IF SetHas(set, x) THEN set ELSE Append(set, x)
SetDelete(set, x) == SelectSeq(set, LAMBDA y : y # x)

(***************************************************************************)
(* Chat.onStart: both histories are read back from the tables.             *)
(***************************************************************************)
RowToChatMessage(row) ==
    [type |-> Absent, id |-> row.id, content |-> row.content,
     user |-> row.user, role |-> row.role]

RowToDirectMessage(row) ==
    [type |-> Absent, id |-> row.id, content |-> row.content,
     fromUserId |-> row.fromUserId, toUserId |-> row.toUserId,
     fromDisplayName |-> row.fromDisplayName, createdAt |-> row.createdAt]

\* ORDER BY created_at ASC: rows of equal created_at stay in rowid order.
RECURSIVE InsertByCreatedAt(_, _)
InsertByCreatedAt(sorted, row) ==
    IF sorted = <<>> THEN <<row>>
    ELSE IF Head(sorted).createdAt <= row.createdAt
         THEN <<Head(sorted)>> \o InsertByCreatedAt(Tail(sorted), row)
         ELSE <<row>> \o sorted

RECURSIVE OrderByCreatedAt(_)
OrderByCreatedAt(rows) ==
    IF rows = <<>> THEN <<>>
    ELSE InsertByCreatedAt(OrderByCreatedAt(SubSeq(rows, 1, Len(rows) - 1)),
                           rows[Len(rows)])

SelectMessages(rows) == [i \in 1..Len(rows) |-> RowToChatMessage(rows[i])]

SelectDirectMessages(rows) ==
    LET sorted == OrderByCreatedAt(rows)
    IN  [i \in 1..Len(sorted) |-> RowToDirectMessage(sorted[i])]

(***************************************************************************)
(* Chat.saveMessage.                                                       *)
(***************************************************************************)
\* A slip that appends without looking the id up.
SaveMessageAlwaysPush(msgs, message) == Append(msgs, message)

\* A slip that replaces by removing the old record and pushing the new one.
SaveMessageMoveToEnd(msgs, message) ==
    Append(SelectSeq(msgs, LAMBDA m : m.id # message.id), message)

\* Lines 681-686: find by id, then map in place or push.
SaveMessageMemory(msgs, message) ==
    IF \E i \in 1..Len(msgs) : msgs[i].id = message.id
    THEN [i \in 1..Len(msgs) |->
            IF msgs[i].id = message.id THEN message ELSE msgs[i]]
    ELSE Append(msgs, message)

\* Lines 688-696: the statement is built as text, then executed.  exec throws
\* when the text does not parse, and then writes nothing.
SaveMessageSql(rows, message) ==
    LET id == SqlSingle(message.id)
        user == SqlSingle(message.user)
        role == SqlSingle(message.role)
        content == SqlDouble(message.content)
    IN  IF ~(id.ok /\ user.ok /\ role.ok /\ content.ok)
        THEN [ok |-> FALSE, rows |-> rows]
        ELSE IF \E i \in 1..Len(rows) : rows[i].id = id.val
        THEN [ok |-> TRUE,
              rows |-> [i \in 1..Len(rows) |->
                          IF rows[i].id = id.val
                          THEN [rows[i] EXCEPT
                                  !.content = SqlSetValue(content.val, rows[i])]
                          ELSE rows[i]]]
        ELSE [ok |-> TRUE,
              rows |-> Append(rows, [id |-> id.val, user |-> user.val,
                                      role |-> role.val, content |-> content.val])]

(***************************************************************************)
(* Chat.saveDirectMessage.                                                 *)
(***************************************************************************)
\* A slip that treats a repeated id as an update.
SaveDirectMessageUpsert(dms, message) ==
    IF \E i \in 1..Len(dms) : dms[i].id = message.id
    THEN [i \in 1..Len(dms) |-> IF dms[i].id = message.id THEN message ELSE dms[i]]
    ELSE Append(dms, message)

\* Line 700.
SaveDirectMessageMemory(dms, message) == Append(dms, message)

\* The parameters bound at lines 704-709.
DirectColumns ==
    {"id", "content", "fromUserId", "toUserId", "fromDisplayName", "createdAt"}

\* Lines 701-710: a plain INSERT with bound parameters.  id is the primary key,
\* so a repeated id makes exec throw and leaves the table as it was; so does a
\* parameter that is undefined, which the table's NOT NULL columns (lines
\* 609-616) refuse where the binding does not.
SaveDirectMessageSql(rows, message) ==
    IF \E name \in DirectColumns : name \notin DOMAIN message
    THEN [ok |-> FALSE, rows |-> rows]
    ELSE IF \E i \in 1..Len(rows) : rows[i].id = message.id
    THEN [ok |-> FALSE, rows |-> rows]
    ELSE [ok |-> TRUE,
          rows |-> Append(rows,
                     [id |-> message.id, content |-> message.content,
                      fromUserId |-> message.fromUserId,
                      toUserId |-> message.toUserId,
                      fromDisplayName |-> message.fromDisplayName,
                      createdAt |-> message.createdAt])]

(***************************************************************************)
(* Chat.updatePresence and Chat.onClose.                                   *)
(***************************************************************************)
PresenceText(userId, isOnline) ==
    JsonStringify([type |-> "presence", userId |-> userId, isOnline |-> isOnline])

\* !userId in JS: no entry in the map, or the empty string.
Falsy(userId) == userId = Absent \/ userId = ""

\* A slip that forgets the other connections of the user.
StillOnlineNever(map, userId) == FALSE

\* Line 667, on the map after the closing connection's entry is deleted.
StillOnline(map, userId) == \E d \in Conns : map[d] = userId

\* A slip that announces every online claim, known user or not.
UpdatePresenceAnnouncing(st, open, c, userId, isOnline) ==
    IF ~isOnline THEN st
    ELSE [st EXCEPT
            !.connectionUsers = [@ EXCEPT ![c] = userId],
            !.onlineUsers = SetAdd(@, userId),
            !.sent = Then(@, Broadcast(open, PresenceText(userId, TRUE), {}))]

\* A slip that believes a client's offline claim.
UpdatePresenceTrusting(st, open, c, userId, isOnline) ==
    IF ~isOnline
    THEN IF SetHas(st.onlineUsers, userId)
         THEN [st EXCEPT
                 !.onlineUsers = SetDelete(@, userId),
                 !.connectionUsers = [@ EXCEPT ![c] = Absent],
                 !.sent = Then(@, Broadcast(open, PresenceText(userId, FALSE), {}))]
         ELSE st
    ELSE LET attributed ==
                 [st EXCEPT !.connectionUsers = [@ EXCEPT ![c] = userId]]
         IN  IF ~SetHas(st.onlineUsers, userId)
             THEN [attributed EXCEPT
                     !.onlineUsers = SetAdd(@, userId),
                     !.sent = Then(@, Broadcast(open, PresenceText(userId, TRUE), {}))]
             ELSE attributed

\* Lines 713-729.  st holds the hub's fields; open is the set of connections.
UpdatePresence(st, open, c, userId, isOnline) ==
    IF ~isOnline THEN st
    ELSE LET attributed ==
                 [st EXCEPT !.connectionUsers = [@ EXCEPT ![c] = userId]]
         IN  IF ~SetHas(st.onlineUsers, userId)
             THEN [attributed EXCEPT
                     !.onlineUsers = SetAdd(@, userId),
                     !.sent = Then(@, Broadcast(open, PresenceText(userId, TRUE), {}))]
             ELSE attributed

(***************************************************************************)
(* Chat.onMessage.                                                         *)
(***************************************************************************)
\* A slip that leaves the sender out.
OnMessageBroadcastOthers(open, c, text) == Broadcast(open, text, {c})

\* A slip that relays the parsed event written anew, not the text received.
OnMessageBroadcastReencoded(open, c, text) ==
    Broadcast(open, JsonStringify(text.obj), {})

\* Line 732: this.broadcast(message), with no connection left out.
OnMessageBroadcast(open, c, text) == Broadcast(open, text, {})

Fields ==
    [messages |-> messages, directMessages |-> directMessages,
     onlineUsers |-> onlineUsers, connectionUsers |-> connectionUsers,
     sqlMessages |-> sqlMessages, sqlDirectMessages |-> sqlDirectMessages,
     sent |-> NothingSent, threw |-> FALSE]

\* A slip that takes a room invitation for a direct message.
SavesDirectOrInvite(parsed) == parsed.type \in {"direct-add", "room-invite"}

\* A slip that saves on add only.
SavesMessageOnAdd(parsed) == parsed.type = "add"

\* Line 735.
SavesMessage(parsed) == parsed.type \in {"add", "update"}

\* Line 740.
SavesDirect(parsed) == parsed.type = "direct-add"

\* Line 745.
IsPresence(parsed) == parsed.type = "presence"

\* Lines 735-747, from the fields st: the event's effect by its type tag.
Dispatch(st, c, parsed) ==
    IF SavesMessage(parsed)
    THEN LET w == SaveMessageSql(st.sqlMessages, parsed)
         IN  [st EXCEPT !.messages = SaveMessageMemory(@, parsed),
                        !.sqlMessages = w.rows,
                        !.threw = ~w.ok]
    ELSE IF SavesDirect(parsed)
    THEN LET w == SaveDirectMessageSql(st.sqlDirectMessages, parsed)
         IN  [st EXCEPT !.directMessages = SaveDirectMessageMemory(@, parsed),
                        !.sqlDirectMessages = w.rows,
                        !.threw = ~w.ok]
    ELSE IF IsPresence(parsed)
    THEN UpdatePresence(st, connections, c, Prop(parsed, "userId"), parsed.isOnline)
    ELSE st

\* A slip that relays the event only once it has been parsed and saved.
OnMessageResultBroadcastLast(c, text) ==
    LET json == JsonParse(text)
        r == Dispatch(Fields, c, json.obj)
    IN  IF ~json.ok THEN [Fields EXCEPT !.threw = TRUE]
        ELSE IF r.threw THEN r
        ELSE [r EXCEPT !.sent = Then(@, OnMessageBroadcast(connections, c, text))]

\* Lines 731-748: the fields, what was sent and whether the handler threw.
\* The relay of line 732 comes before the parse of line 734.
OnMessageResult(c, text) ==
    LET st == [Fields EXCEPT !.sent = OnMessageBroadcast(connections, c, text)]
        json == JsonParse(text)
    IN  IF ~json.ok THEN [st EXCEPT !.threw = TRUE]
        ELSE Dispatch(st, c, json.obj)

IsSave(text) == JsonParse(text).ok /\ JsonParse(text).obj.type \in {"add", "update"}

\* What line 681 finds for the event's id.
Found(text) ==
    IsSave(text) /\ \E i \in 1..Len(messages) : messages[i].id = text.obj.id

Assign(r) ==
    /\ messages' = r.messages
    /\ directMessages' = r.directMessages
    /\ onlineUsers' = r.onlineUsers
    /\ connectionUsers' = r.connectionUsers
    /\ sqlMessages' = r.sqlMessages
    /\ sqlDirectMessages' = r.sqlDirectMessages
    /\ sent' = r.sent
    /\ threw' = r.threw

OnMessage(c, text) ==
    /\ c \in connections
    /\ JsonParse(text).ok /\ text.obj.type = "direct-add"
         => Len(directMessages) < MaxDirect
    /\ Assign(OnMessageResult(c, text))
    /\ last' = [op |-> "onMessage", conn |-> c, text |-> text,
                userId |-> Absent,
                found |-> Found(text),
                again |-> /\ last.op = "onMessage"
                          /\ last.text = text
                          /\ ~last.found]
    /\ lastEvent' = IF IsSave(text)
                    THEN [lastEvent EXCEPT ![text.obj.id] = text.obj]
                    ELSE lastEvent
    /\ UNCHANGED connections

(***************************************************************************)
(* Chat.onConnect: the snapshot, to the new connection only.               *)
(***************************************************************************)
\* A slip that sends the direct-message history first.
SnapshotDirectFirst ==
    <<JsonStringify([type |-> "direct-all", messages |-> directMessages]),
      JsonStringify([type |-> "all", messages |-> messages])>>
    \o [i \in 1..Len(onlineUsers) |-> PresenceText(onlineUsers[i], TRUE)]

\* Lines 635-657.
Snapshot ==
    <<JsonStringify([type |-> "all", messages |-> messages]),
      JsonStringify([type |-> "direct-all", messages |-> directMessages])>>
    \o [i \in 1..Len(onlineUsers) |-> PresenceText(onlineUsers[i], TRUE)]

OnConnect(c) ==
    /\ c \notin connections
    /\ connections' = connections \cup {c}
    /\ sent' = [d \in Conns |-> IF d = c THEN Snapshot ELSE <<>>]
    /\ threw' = FALSE
    /\ last' = [op |-> "onConnect", conn |-> c, text |-> NoText,
                userId |-> Absent, found |-> FALSE, again |-> FALSE]
    /\ UNCHANGED <<messages, directMessages, onlineUsers, connectionUsers,
                   sqlMessages, sqlDirectMessages, lastEvent>>

(***************************************************************************)
(* Chat.onClose.  The closing connection is no longer among those that     *)
(* broadcast reaches.                                                      *)
(***************************************************************************)
OnCloseResult(c) ==
    LET userId == connectionUsers[c]
        map == [connectionUsers EXCEPT ![c] = Absent]
    IN  IF Falsy(userId) THEN Fields
        ELSE IF StillOnline(map, userId)
        THEN [Fields EXCEPT !.connectionUsers = map]
        ELSE [Fields EXCEPT
                !.connectionUsers = map,
                !.onlineUsers = SetDelete(@, userId),
                !.sent = Broadcast(connections \ {c},
                                   PresenceText(userId, FALSE), {})]

OnClose(c) ==
    /\ c \in connections
    /\ connections' = connections \ {c}
    /\ Assign(OnCloseResult(c))
    /\ last' = [op |-> "onClose", conn |-> c, text |-> NoText,
                userId |-> connectionUsers[c], found |-> FALSE, again |-> FALSE]
    /\ UNCHANGED lastEvent

(***************************************************************************)
(* Chat.onStart on re-activation.  The hub hibernates (line 592): it may   *)
(* be evicted while its connections stay open, and the next event finds a  *)
(* new instance whose fields onStart fills from the tables.                *)
(***************************************************************************)
OnStart ==
    /\ messages' = SelectMessages(sqlMessages)
    /\ directMessages' = SelectDirectMessages(sqlDirectMessages)
    /\ onlineUsers' = <<>>
    /\ connectionUsers' = [c \in Conns |-> Absent]
    /\ sent' = NothingSent
    /\ threw' = FALSE
    /\ last' = [op |-> "onStart", conn |-> 0, text |-> NoText,
                userId |-> Absent, found |-> FALSE, again |-> FALSE]
    /\ UNCHANGED <<connections, sqlMessages, sqlDirectMessages, lastEvent>>

(***************************************************************************)
(* The client: component ChatApp, one behind each open connection.  Its    *)
(* state is what useState and useRef hold: the direct messages, the room   *)
(* invitations, the online and typing maps, the call state and whether a   *)
(* peer connection exists.  out is what the component sent while handling  *)
(* the hub's last deliveries, sinceStart tells whether the hub's histories *)
(* and online set were empty when the connection opened, and replies are   *)
(* the answers to the component's HTTP requests that it has yet to handle. *)
(***************************************************************************)
EmptyMap == [k \in {} |-> TRUE]

\* { ...all, [key]: value }
MapPut(all, key, value) ==
    [k \in DOMAIN all \cup {key} |-> IF k = key THEN value ELSE all[k]]

FreshClient ==
    [user |-> Absent, directMessages |-> <<>>, roomInvites |-> <<>>,
     onlineUsers |-> EmptyMap, typingByUser |-> EmptyMap,
     callTargetId |-> "", callActive |-> FALSE, incomingCallFrom |-> Absent,
     peer |-> FALSE, out |-> <<>>, sinceStart |-> FALSE, replies |-> {}]

HasId(all, id) == \E i \in 1..Len(all) : all[i].id = id

\* messageMap.set(item.id, item): a known key keeps its place.
MapSetById(all, item) ==
    IF HasId(all, item.id)
    THEN LET first == CHOOSE i \in 1..Len(all) :
                        /\ all[i].id = item.id
                        /\ \A j \in 1..(i - 1) : all[j].id # item.id
         IN  [all EXCEPT ![first] = item]
    ELSE Append(all, item)

RECURSIVE MapFromItems(_, _)
MapFromItems(map, items) ==
    IF items = <<>> THEN map
    ELSE MapFromItems(MapSetById(map, Head(items)), Tail(items))

\* Lines 169-175.
ClientDirectAll(allMessages, message) ==
    OrderByCreatedAt(
        MapFromItems(MapFromItems(<<>>, allMessages), message.messages))

\* A slip that forgets to look for the id.
ClientDirectAddTwice(allMessages, user, message) ==
    IF message.fromUserId # user /\ message.toUserId # user THEN allMessages
    ELSE OrderByCreatedAt(Append(allMessages, message))

\* Lines 180-190.
ClientDirectAdd(allMessages, user, message) ==
    IF message.fromUserId # user /\ message.toUserId # user THEN allMessages
    ELSE IF HasId(allMessages, message.id) THEN allMessages
    ELSE OrderByCreatedAt(Append(allMessages, message))

\* A slip that forgets the slice.
ClientRoomInviteUncut(all, message) ==
    IF HasId(all, message.id) THEN all ELSE <<message>> \o all

\* Lines 195-200.
ClientRoomInvite(all, message) ==
    IF HasId(all, message.id) THEN all
    ELSE SubSeq(<<message>> \o all, 1, IF Len(all) + 1 < 8 THEN Len(all) + 1 ELSE 8)

\* A slip that forgets to look at toUserId.
ForAnyone(user, message) == TRUE

\* message.toUserId === user.id, at lines 194, 209 and 214.
ForMe(user, message) == message.toUserId = user

SignalText(from, to, signalType, payload) ==
    JsonStringify([type |-> "signal", fromUserId |-> from, toUserId |-> to,
                   signalType |-> signalType, payload |-> payload])

\* Lines 416-440.
EndCall(cl) ==
    [cl EXCEPT
       !.out = IF cl.callTargetId # ""
               THEN Append(@, SignalText(cl.user, cl.callTargetId, "call-end", ""))
               ELSE @,
       !.peer = FALSE,
       !.callActive = FALSE]

\* The payloads JSON.parse accepts (lines 356, 375 and 383).
PayloadParses(payload) == payload \in {"{}"}

\* Lines 338-386, run to its end or to the await that rejects.  media tells
\* whether the browser's calls (getUserMedia, setRemoteDescription,
\* createAnswer, setLocalDescription) succeed.
HandleSignal(cl, message, media) ==
    IF message.signalType = "call-end" THEN EndCall(cl)
    ELSE LET targeted == [cl EXCEPT !.callTargetId = message.fromUserId,
                                    !.peer = TRUE]
         IN  IF ~cl.peer /\ ~media THEN targeted
             ELSE IF message.signalType = "offer"
             THEN LET rung == [targeted EXCEPT
                                 !.incomingCallFrom = message.fromUserId]
                  IN  IF ~PayloadParses(message.payload) \/ ~media THEN rung
                      ELSE [rung EXCEPT
                              !.out = Append(@, SignalText(cl.user,
                                                   message.fromUserId,
                                                   "answer", "{}")),
                              !.callActive = TRUE]
             ELSE IF message.signalType = "answer"
             THEN IF ~PayloadParses(message.payload) \/ ~media THEN targeted
                  ELSE [targeted EXCEPT !.callActive = TRUE]
             ELSE targeted

\* Lines 165-217: the onMessage callback of usePartySocket.
ClientOnMessage(cl, text, media) ==
    LET json == JsonParse(text)
        message == json.obj
    IN  IF ~json.ok THEN cl
        ELSE IF message.type = "direct-all"
        THEN [cl EXCEPT !.directMessages = ClientDirectAll(@, message)]
        ELSE IF message.type = "direct-add"
        THEN [cl EXCEPT !.directMessages = ClientDirectAdd(@, cl.user, message)]
        ELSE IF message.type = "room-invite" /\ ForMe(cl.user, message)
        THEN [cl EXCEPT !.roomInvites = ClientRoomInvite(@, message)]
        ELSE IF message.type = "presence"
        THEN [cl EXCEPT !.onlineUsers =
                          MapPut(@, message.userId, message.isOnline)]
        ELSE IF message.type = "signal" /\ ForMe(cl.user, message)
        THEN HandleSignal(cl, message, media)
        ELSE IF message.type = "typing" /\ ForMe(cl.user, message)
        THEN [cl EXCEPT !.typingByUser =
                          MapPut(@, message.fromUserId, message.isTyping)]
        ELSE cl

RECURSIVE ClientOnMessages(_, _, _)
ClientOnMessages(cl, texts, media) ==
    IF texts = <<>> THEN cl
    ELSE ClientOnMessages(ClientOnMessage(cl, Head(texts), media),
                          Tail(texts), media)

\* The component of user, mounted as its connection opens.
MountedClient(user) ==
    [FreshClient EXCEPT
       !.user = user,
       !.sinceStart = messages = <<>> /\ directMessages = <<>>
                        /\ onlineUsers = <<>>]

\* Each open connection's component handles, in order, what the hub's handler
\* has just sent to it; the component of a closed connection is gone.
Delivered(base, media) ==
    clients' = [d \in Conns |->
                  IF d \in connections'
                  THEN ClientOnMessages([base[d] EXCEPT !.out = <<>>],
                                        sent'[d], media)
                  ELSE FreshClient]

\* A browser of user opens connection c.
ClientConnects(c, user) ==
    /\ OnConnect(c)
    /\ Delivered([clients EXCEPT ![c] = MountedClient(user)], TRUE)
    /\ UNCHANGED beyondRoom

ClientCloses(c) ==
    OnClose(c) /\ Delivered(clients, TRUE) /\ UNCHANGED beyondRoom

ClientSends(c, text, media) ==
    OnMessage(c, text) /\ Delivered(clients, media) /\ UNCHANGED beyondRoom

\* Lines 388-414, run to its end or to the getUserMedia that rejects.
StartCall(cl, destination, media) ==
    LET dialled == [cl EXCEPT !.callTargetId = destination, !.peer = TRUE]
    IN  IF ~media THEN dialled
        ELSE [dialled EXCEPT
                !.out = Append(@, SignalText(cl.user, destination, "offer", "{}")),
                !.incomingCallFrom = Absent]

\* Each open connection's component handles what the hub's handler has just
\* sent to it; what it sends in turn joins what it has sent already.
Queued(base, media) ==
    clients' = [d \in Conns |->
                  IF d \in connections'
                  THEN ClientOnMessages(base[d], sent'[d], media)
                  ELSE FreshClient]

\* A browser of user opens connection c; its sends wait for the hub.
CallerConnects(c, user) ==
    /\ OnConnect(c)
    /\ Queued([clients EXCEPT ![c] = MountedClient(user)], TRUE)
    /\ UNCHANGED beyondRoom

CallerCloses(c) ==
    OnClose(c) /\ Queued(clients, TRUE) /\ UNCHANGED beyondRoom

\* The number of events the components of connections 1..n have sent that
\* have not reached the hub.
RECURSIVE Awaiting(_)
Awaiting(n) == IF n = 0 THEN 0 ELSE Len(clients[n].out) + Awaiting(n - 1)

\* The user behind connection c presses the call button of a contact.
StartVideoCall(c, destination, media) ==
    /\ c \in connections
    /\ destination # clients[c].user
    /\ Awaiting(NumConns) < MaxOut
    /\ clients' = [clients EXCEPT ![c] = StartCall(@, destination, media)]
    /\ UNCHANGED <<room, beyondRoom>>

\* The user behind connection c presses the button that ends the call.
PressEndCall(c) ==
    /\ c \in connections
    /\ Awaiting(NumConns) < MaxOut
    /\ clients' = [clients EXCEPT ![c] = EndCall(@)]
    /\ UNCHANGED <<room, beyondRoom>>

\* The oldest event connection c has sent reaches the hub, whose relay the
\* components handle.
HubHandles(c, media) ==
    /\ c \in connections
    /\ clients[c].out # <<>>
    /\ OnMessage(c, Head(clients[c].out))
    /\ Queued([clients EXCEPT ![c].out = Tail(@)], media)
    /\ UNCHANGED beyondRoom

(***************************************************************************)
(* The Auth store: class Auth, one instance.  Its tables are users (by     *)
(* username), contacts, direct_messages and user_rooms, the last two in    *)
(* insertion order; now is what Date.now() returns.                        *)
(***************************************************************************)
\* value?.trim(): undefined stays undefined, blanks around a string go.
Trim(value) ==
    IF value = " r1 " THEN "r1"
    ELSE IF value = "  " THEN ""
    ELSE value

\* The null of a lookup that finds no row.
NoUser == [id |-> Absent, displayName |-> Absent, bio |-> Absent]

\* Lines 225-241.
GetUserByUsername(store, username) ==
    IF username \in DOMAIN store.users THEN store.users[username] ELSE NoUser

\* Lines 243-259.
GetUserById(store, id) ==
    IF \E name \in DOMAIN store.users : store.users[name].id = id
    THEN store.users[CHOOSE name \in DOMAIN store.users :
                        store.users[name].id = id]
    ELSE NoUser

Reply(status, data, store) == [status |-> status, data |-> data, store |-> store]

ErrorReply(status, store) == Reply(status, [error |-> TRUE], store)

\* Lines 338-372.
AuthProfile(store, body) ==
    LET username == Trim(Prop(body, "username"))
        displayName == Trim(Prop(body, "displayName"))
        bio == IF Prop(body, "bio") = Absent THEN "" ELSE Trim(body.bio)
    IN  IF Falsy(username) \/ Falsy(displayName) THEN ErrorReply(400, store)
        ELSE IF GetUserByUsername(store, username) = NoUser
        THEN ErrorReply(404, store)
        ELSE Reply(200, [user |-> username],
                   [store EXCEPT !.users[username].displayName = displayName,
                                 !.users[username].bio = bio])

\* Lines 374-413.
AuthContactsAdd(store, body) ==
    LET username == Trim(Prop(body, "username"))
        userId == Trim(Prop(body, "userId"))
        owner == GetUserByUsername(store, username)
        target == GetUserById(store, userId)
    IN  IF Falsy(username) \/ Falsy(userId) THEN ErrorReply(400, store)
        ELSE IF owner = NoUser THEN ErrorReply(404, store)
        ELSE IF owner.id = userId THEN ErrorReply(400, store)
        ELSE IF target = NoUser THEN ErrorReply(404, store)
        ELSE Reply(200, [contact |-> target.id],
                   [store EXCEPT !.contacts = @ \cup {<<owner.id, target.id>>}])

\* Lines 415-438.
AuthContacts(store, username) ==
    IF Falsy(Trim(username)) THEN ErrorReply(400, store)
    ELSE IF GetUserByUsername(store, Trim(username)) = NoUser
    THEN ErrorReply(404, store)
    ELSE LET owner == GetUserByUsername(store, Trim(username))
         IN  Reply(200,
                   [contacts |-> {p[2] : p \in {q \in store.contacts :
                                                   q[1] = owner.id}}],
                   store)

\* WHERE from_user_id = ? OR to_user_id = ?
DirectOf(rows, id) ==
    SelectSeq(rows, LAMBDA row : row.fromUserId = id \/ row.toUserId = id)

\* Lines 440-469.
AuthDirect(store, username) ==
    IF Falsy(Trim(username)) THEN ErrorReply(400, store)
    ELSE IF GetUserByUsername(store, Trim(username)) = NoUser
    THEN ErrorReply(404, store)
    ELSE LET owner == GetUserByUsername(store, Trim(username))
         IN  Reply(200,
                   [messages |-> OrderByCreatedAt(DirectOf(store.direct, owner.id))],
                   store)

\* Lines 471-516.  uuid is what crypto.randomUUID() returns.
AuthDirectSend(store, body, uuid) ==
    LET username == Trim(Prop(body, "username"))
        toUserId == Trim(Prop(body, "toUserId"))
        content == Trim(Prop(body, "content"))
        sender == GetUserByUsername(store, username)
        receiver == GetUserById(store, toUserId)
        message == [id |-> uuid, content |-> content, fromUserId |-> sender.id,
                    toUserId |-> receiver.id,
                    fromDisplayName |-> sender.displayName,
                    createdAt |-> store.now]
    IN  IF Falsy(username) \/ Falsy(toUserId) \/ Falsy(content)
        THEN ErrorReply(400, store)
        ELSE IF sender = NoUser THEN ErrorReply(404, store)
        ELSE IF receiver = NoUser THEN ErrorReply(404, store)
        ELSE Reply(200, [message |-> message],
                   [store EXCEPT !.direct = Append(@, message)])

\* A slip that writes the role of the last join.
JoinedRoleLast(stored, joining) == joining

\* Lines 545-548: the CASE of the upsert.
JoinedRole(stored, joining) ==
    IF stored = "creator" \/ joining = "creator" THEN "creator" ELSE "member"

\* Lines 518-557.
AuthRoomsJoin(store, body) ==
    LET username == Trim(Prop(body, "username"))
        roomId == Trim(Prop(body, "roomId"))
        named == Trim(Prop(body, "roomName"))
        roomName == IF Falsy(named) THEN roomId ELSE named
        role == IF Prop(body, "role") = "creator" THEN "creator" ELSE "member"
        user == GetUserByUsername(store, username)
        had == {i \in 1..Len(store.rooms) :
                  store.rooms[i].userId = user.id /\ store.rooms[i].roomId = roomId}
    IN  IF Falsy(username) \/ Falsy(roomId) THEN ErrorReply(400, store)
        ELSE IF user = NoUser THEN ErrorReply(404, store)
        ELSE Reply(200, [ok |-> TRUE],
                   [store EXCEPT !.rooms =
                      IF had = {}
                      THEN Append(@, [userId |-> user.id, roomId |-> roomId,
                                      roomName |-> roomName, role |-> role,
                                      joinedAt |-> store.now])
                      ELSE [i \in 1..Len(@) |->
                              IF i \in had
                              THEN [@[i] EXCEPT
                                      !.roomName = roomName,
                                      !.role = JoinedRole(@, role)]
                              ELSE @[i]]])

\* ORDER BY joined_at DESC: rows of equal joined_at stay in rowid order.
RECURSIVE OrderByJoinedAtDesc(_)
OrderByJoinedAtDesc(rows) ==
    IF rows = <<>> THEN <<>>
    ELSE LET top == CHOOSE i \in 1..Len(rows) :
                      /\ \A j \in 1..Len(rows) : rows[j].joinedAt <= rows[i].joinedAt
                      /\ \A j \in 1..(i - 1) : rows[j].joinedAt < rows[i].joinedAt
         IN  <<rows[top]>> \o
             OrderByJoinedAtDesc(SubSeq(rows, 1, top - 1)
                                 \o SubSeq(rows, top + 1, Len(rows)))

\* Lines 559-585.
AuthRooms(store, username) ==
    IF Falsy(Trim(username)) THEN ErrorReply(400, store)
    ELSE IF GetUserByUsername(store, Trim(username)) = NoUser
    THEN ErrorReply(404, store)
    ELSE LET user == GetUserByUsername(store, Trim(username))
         IN  Reply(200,
                   [rooms |-> OrderByJoinedAtDesc(
                                 SelectSeq(store.rooms,
                                           LAMBDA row : row.userId = user.id))],
                   store)

\* Lines 261-588, for the routes the worker forwards with a session.
AuthFetch(store, route, body, uuid) ==
    CASE route = "/profile" -> AuthProfile(store, body)
      [] route = "/contacts/add" -> AuthContactsAdd(store, body)
      [] route = "/contacts" -> AuthContacts(store, Prop(body, "username"))
      [] route = "/direct" -> AuthDirect(store, Prop(body, "username"))
      [] route = "/direct/send" -> AuthDirectSend(store, body, uuid)
      [] route = "/rooms/join" -> AuthRoomsJoin(store, body)
      [] route = "/rooms" -> AuthRooms(store, Prop(body, "username"))

\* The store after the constructor, with two registered users.
AuthStart ==
    [users |-> ("alice" :> [id |-> "u1", displayName |-> "One", bio |-> ""])
               @@ ("bob" :> [id |-> "u2", displayName |-> "Two", bio |-> ""]),
     contacts |-> {},
     direct |-> <<>>,
     rooms |-> <<>>,
     now |-> 1]

(***************************************************************************)
(* The worker: default.fetch in front of the Auth store.  A session cookie *)
(* is a payload and a signature; a cookie value with no "." has no         *)
(* signature part, and an empty value counts as no cookie.                 *)
(***************************************************************************)
\* Lines 88-105: the HMAC of the payload under a secret.
SignPayload(payload, secret) == [payload |-> payload, secret |-> secret]

AuthSecret == "AUTH_SECRET"

\* Lines 107-113.
SessionToken(username, expiresAt, secret) ==
    [kind |-> "token",
     payload |-> [username |-> username, expiresAt |-> expiresAt],
     signature |-> SignPayload([username |-> username, expiresAt |-> expiresAt],
                               secret)]

NoCookie == [kind |-> "none"]
EmptyCookie == [kind |-> "empty"]
DotlessCookie == [kind |-> "dotless"]

\* The null of a failed verification.
NoPayload == [username |-> Absent, expiresAt |-> 0]

\* A slip that forgets the expiry.
VerifySessionTokenForever(token, now) ==
    IF token.kind # "token" THEN NoPayload
    ELSE IF SignPayload(token.payload, AuthSecret) # token.signature
    THEN NoPayload
    ELSE token.payload

\* Lines 115-136.
VerifySessionToken(token, now) ==
    IF token.kind # "token" THEN NoPayload
    ELSE IF SignPayload(token.payload, AuthSecret) # token.signature
    THEN NoPayload
    ELSE IF token.payload.expiresAt < now THEN NoPayload
    ELSE token.payload

\* Lines 800-803.
SessionPayload(cookie, now) ==
    IF cookie.kind \in {"none", "empty"} THEN NoPayload
    ELSE VerifySessionToken(cookie, now)

\* Lines 831-932: the routes that ask for a session.
Routes ==
    {[method |-> "POST", path |-> "/api/users/profile", route |-> "/profile"],
     [method |-> "POST", path |-> "/api/users/contacts/add",
      route |-> "/contacts/add"],
     [method |-> "GET", path |-> "/api/users/contacts", route |-> "/contacts"],
     [method |-> "GET", path |-> "/api/direct", route |-> "/direct"],
     [method |-> "POST", path |-> "/api/direct/send", route |-> "/direct/send"],
     [method |-> "POST", path |-> "/api/rooms/join", route |-> "/rooms/join"],
     [method |-> "GET", path |-> "/api/rooms", route |-> "/rooms"]}

RouteOf(method, path) ==
    IF \E r \in Routes : r.method = method /\ r.path = path
    THEN (CHOOSE r \in Routes : r.method = method /\ r.path = path).route
    ELSE Absent

\* username: payload.username in every forwarded body and query.
ActingUsername(payload, body) == payload.username

\* What the worker hands to the Auth store for a route.
ForwardedBody(route, payload, body) ==
    LET username == ActingUsername(payload, body)
    IN  CASE route = "/profile" ->
               [username |-> username, displayName |-> Prop(body, "displayName"),
                bio |-> Prop(body, "bio")]
          [] route = "/contacts/add" ->
               [username |-> username, userId |-> Prop(body, "userId")]
          [] route = "/direct/send" ->
               [username |-> username, toUserId |-> Prop(body, "toUserId"),
                content |-> Prop(body, "content")]
          [] route = "/rooms/join" ->
               [username |-> username, roomId |-> Prop(body, "roomId"),
                roomName |-> Prop(body, "roomName"), role |-> Prop(body, "role")]
          [] OTHER -> [username |-> username]

\* Lines 934-937: the request is left to routePartykitRequest and ASSETS.
PassedOn == 0

\* Lines 800-937 of default.fetch.
WorkerFetch(store, request, uuid) ==
    LET payload == SessionPayload(request.cookie, store.now)
        route == RouteOf(request.method, request.path)
    IN  IF route = Absent
        THEN [status |-> PassedOn, data |-> [passed |-> TRUE], store |-> store,
              forwarded |-> FALSE, username |-> Absent]
        ELSE IF payload = NoPayload
        THEN [status |-> 401, data |-> [error |-> TRUE], store |-> store,
              forwarded |-> FALSE, username |-> Absent]
        ELSE LET reply == AuthFetch(store, route,
                                    ForwardedBody(route, payload, request.body),
                                    uuid)
             IN  [status |-> reply.status, data |-> reply.data,
                  store |-> reply.store, forwarded |-> TRUE,
                  username |-> ActingUsername(payload, request.body)]

\* No request has been made.
NoExchange ==
    [method |-> "none", path |-> "none", cookie |-> NoCookie,
     asked |-> [k \in {} |-> Absent], claimed |-> Absent,
     status |-> PassedOn, error |-> FALSE, forwarded |-> FALSE,
     username |-> Absent]

\* The last request and what became of it.
Exchange(request, answer) ==
    [method |-> request.method, path |-> request.path, cookie |-> request.cookie,
     asked |-> request.body, claimed |-> Prop(request.body, "username"),
     status |-> answer.status, error |-> "error" \in DOMAIN answer.data,
     forwarded |-> answer.forwarded, username |-> answer.username]

\* The ids of the rows of direct_messages.
DirectIds(store) == {store.direct[i].id : i \in 1..Len(store.direct)}

\* The worker answers a request; uuid is what crypto.randomUUID() gives if
\* the request comes to ask for one, an id no row has.
Fetch(request, uuid) ==
    /\ LET answer == WorkerFetch(auth, request, uuid)
       IN  /\ answer.store.direct # auth.direct => uuid \notin DirectIds(auth)
           /\ auth' = answer.store
           /\ http' = Exchange(request, answer)
    /\ UNCHANGED <<room, clients>>

\* Time passes.
Tick ==
    /\ auth.now < MaxNow
    /\ auth' = [auth EXCEPT !.now = @ + 1]
    /\ UNCHANGED <<room, clients, http>>

(***************************************************************************)
(* The component's HTTP requests: the history it loads as it mounts and    *)
(* the messages it sends from the compose form.  A request reaches the     *)
(* worker as it is made; the answers are handled in any order.             *)
(***************************************************************************)
\* users.username of a user id.
UsernameOf(id) == CHOOSE name \in DOMAIN AuthStart.users : AuthStart.users[name].id = id

\* credentials: "include", with the cookie the login set.
Credentials(id) == SessionToken(UsernameOf(id), MaxNow, AuthSecret)

\* JSON.stringify of a stored message: an object with no type property.
Untyped(message) ==
    [k \in DOMAIN message \cup {"type"} |->
        IF k = "type" THEN Absent ELSE message[k]]

\* Lines 243-251 and 281-282: the request of loadDirectMessages.
LoadRequest(id) ==
    [method |-> "GET", path |-> "/api/direct", cookie |-> Credentials(id),
     body |-> [k \in {} |-> Absent]]

\* Lines 839-847.
SendRequest(id, toUserId, content) ==
    [method |-> "POST", path |-> "/api/direct/send", cookie |-> Credentials(id),
     body |-> [toUserId |-> toUserId, content |-> content]]

\* response.ok and the parsed body.
ReplyOf(kind, answer) ==
    [kind |-> kind, ok |-> answer.status = 200, data |-> answer.data]

\* A browser of user opens connection c, and the mounted component asks
\* for its direct-message history.
ComposerConnects(c, user) ==
    /\ OnConnect(c)
    /\ LET answer == WorkerFetch(auth, LoadRequest(user), "none")
           mounted == [MountedClient(user) EXCEPT
                         !.replies = {ReplyOf("load", answer)}]
       IN  /\ Delivered([clients EXCEPT ![c] = mounted], TRUE)
           /\ auth' = answer.store
           /\ http' = Exchange(LoadRequest(user), answer)

\* Lines 827-880: the compose form is submitted with a contact selected.
ComposeSubmit(c, toUserId, content, uuid) ==
    /\ c \in connections
    /\ toUserId # clients[c].user
    /\ uuid \notin DirectIds(auth)
    /\ LET request == SendRequest(clients[c].user, toUserId, content)
           answer == WorkerFetch(auth, request, uuid)
           typing == JsonStringify([type |-> "typing",
                                    fromUserId |-> clients[c].user,
                                    toUserId |-> toUserId, isTyping |-> FALSE])
       IN  /\ OnMessage(c, typing)
           /\ Delivered([clients EXCEPT ![c].replies =
                                           @ \cup {ReplyOf("send", answer)}],
                        TRUE)
           /\ auth' = answer.store
           /\ http' = Exchange(request, answer)

\* Lines 849-868: the answer to a send arrives.
SendReplied(c, reply) ==
    LET sentMessage == reply.data.message
        handled == [clients EXCEPT
                      ![c].replies = @ \ {reply},
                      ![c].directMessages =
                          IF HasId(@, sentMessage.id) THEN @
                          ELSE Append(@, sentMessage)]
    IN  IF ~reply.ok \/ "message" \notin DOMAIN reply.data
        THEN /\ clients' = [clients EXCEPT ![c].replies = @ \ {reply}]
             /\ UNCHANGED room
        ELSE /\ OnMessage(c, JsonStringify(Untyped(sentMessage)))
             /\ Delivered(handled, TRUE)

\* Lines 243-251: the answer to the load arrives.
LoadReplied(c, reply) ==
    /\ clients' = [clients EXCEPT
                     ![c].replies = @ \ {reply},
                     ![c].directMessages =
                         IF reply.ok /\ "messages" \in DOMAIN reply.data
                         THEN reply.data.messages ELSE @]
    /\ UNCHANGED room

\* The component behind connection c handles one of the answers it awaits.
Replied(c) ==
    /\ c \in connections
    /\ \E reply \in clients[c].replies :
          IF reply.kind = "send" THEN SendReplied(c, reply)
          ELSE LoadReplied(c, reply)
    /\ UNCHANGED beyondRoom

(***************************************************************************)
(* The inputs: the events clients send, and the tables found at start.     *)
(***************************************************************************)
Users == {"u1", "u2"}
MsgIds == {IdM1, IdM2, IdM3}
NoEvent == [type |-> Absent]

\* The ids clients send events for; IdM3 is only ever found stored.
SentIds == {IdM1, IdM2}

RoomObjects ==
    [type : {"add"}, id : SentIds, content : {Hi, Quoted, Slash},
     user : {AuthorA}, role : {RoleUser}]
    \cup [type : {"update"}, id : SentIds, content : {HiBang},
          user : {AuthorA}, role : {RoleUser}]
    \cup [type : {"update"}, id : SentIds, content : {ColId},
          user : {AuthorA}, role : {RoleAssistant}]

RoomTexts == {JsonStringify(o) : o \in RoomObjects}

StoredRow(id, content) ==
    [id |-> id, user |-> AuthorA, role |-> RoleUser, content |-> content]

StoredMessages == {<<>>, <<StoredRow(IdM3, Hi)>>}

(***************************************************************************)
(* The state after construction and onStart, for given stored tables.      *)
(***************************************************************************)
InitFrom(rowsM, rowsD) ==
    /\ connections = {}
    /\ sqlMessages = rowsM
    /\ sqlDirectMessages = rowsD
    /\ messages = SelectMessages(rowsM)
    /\ directMessages = SelectDirectMessages(rowsD)
    /\ onlineUsers = <<>>
    /\ connectionUsers = [c \in Conns |-> Absent]
    /\ sent = NothingSent
    /\ threw = FALSE
    /\ last = [op |-> "onStart", conn |-> 0, text |-> NoText,
               userId |-> Absent, found |-> FALSE, again |-> FALSE]
    /\ lastEvent = [id \in MsgIds |-> NoEvent]
    /\ clients = [c \in Conns |-> FreshClient]
    /\ auth = AuthStart
    /\ http = NoExchange

(***************************************************************************)
(* Room messages: connections come and go and send add and update events.  *)
(***************************************************************************)
InitRoom == \E rowsM \in StoredMessages : InitFrom(rowsM, <<>>)

NextRoom ==
    \/ \E c \in HistoryConns : OnConnect(c) /\ UNCHANGED beyondHub
    \/ \E c \in HistoryConns : OnClose(c) /\ UNCHANGED beyondHub
    \/ \E c \in HistoryConns, text \in RoomTexts : OnMessage(c, text)
         /\ UNCHANGED beyondHub

SpecRoom == InitRoom /\ [][NextRoom]_vars

(***************************************************************************)
(* The upsert: add and update events whose contents have no character SQL  *)
(* or JSON quotes, under both roles.                                       *)
(***************************************************************************)
UpsertObjects ==
    [type : {"add", "update"}, id : {IdM1}, content : {Hi, HiBang},
     user : {AuthorA}, role : {RoleUser, RoleAssistant}]

UpsertTexts == {JsonStringify(o) : o \in UpsertObjects}

InitUpsert == \E rowsM \in StoredMessages : InitFrom(rowsM, <<>>)

NextUpsert ==
    \/ \E c \in HistoryConns : OnConnect(c) /\ UNCHANGED beyondHub
    \/ \E c \in HistoryConns : OnClose(c) /\ UNCHANGED beyondHub
    \/ \E c \in HistoryConns, text \in UpsertTexts : OnMessage(c, text)
         /\ UNCHANGED beyondHub

SpecUpsert == InitUpsert /\ [][NextUpsert]_vars

(***************************************************************************)
(* Direct messages: direct-add events, and one event of every other kind.  *)
(***************************************************************************)
DirectObject(id, content, createdAt) ==
    [type |-> "direct-add", id |-> id, content |-> content,
     fromUserId |-> "u1", toUserId |-> "u2", fromDisplayName |-> "One",
     createdAt |-> createdAt]

DirectObjects ==
    {DirectObject("d1", "yo", 2), DirectObject("d1", "oy", 2),
     DirectObject("d2", "yo", 1)}

DirectRow(id, content, createdAt) ==
    [id |-> id, content |-> content, fromUserId |-> "u1", toUserId |-> "u2",
     fromDisplayName |-> "One", createdAt |-> createdAt]

StoredDirectMessages == {<<>>, <<DirectRow("d3", "yo", 1)>>}

TypingObject ==
    [type |-> "typing", fromUserId |-> "u1", toUserId |-> "u2", isTyping |-> TRUE]

SignalObject(signalType, payload) ==
    [type |-> "signal", fromUserId |-> "u1", toUserId |-> "u2",
     signalType |-> signalType, payload |-> payload]

InviteObject ==
    [type |-> "room-invite", id |-> "i1", roomId |-> "r1", roomName |-> "Room",
     fromUserId |-> "u1", fromDisplayName |-> "One", toUserId |-> "u2",
     createdAt |-> 1]

AddObject ==
    [type |-> "add", id |-> IdM1, content |-> Hi, user |-> AuthorA,
     role |-> RoleUser]

PresenceObjects == [type : {"presence"}, userId : Users, isOnline : BOOLEAN]

OtherObjects ==
    {AddObject, TypingObject, SignalObject("call-end", ""), InviteObject,
     [type |-> "presence", userId |-> "u1", isOnline |-> TRUE],
     [type |-> "presence", userId |-> "u1", isOnline |-> FALSE]}

DirectTexts == {JsonStringify(o) : o \in DirectObjects \cup OtherObjects}

InitDirect == \E rowsD \in StoredDirectMessages : InitFrom(<<>>, rowsD)

NextDirect ==
    \/ \E c \in HistoryConns : OnConnect(c) /\ UNCHANGED beyondHub
    \/ \E c \in HistoryConns : OnClose(c) /\ UNCHANGED beyondHub
    \/ \E c \in HistoryConns, text \in DirectTexts : OnMessage(c, text)
         /\ UNCHANGED beyondHub

SpecDirect == InitDirect /\ [][NextDirect]_vars

(***************************************************************************)
(* Presence: connections come and go and send presence events.             *)
(***************************************************************************)
PresenceTexts == {JsonStringify(o) : o \in PresenceObjects}

InitPresence == InitFrom(<<>>, <<>>)

NextPresence ==
    \/ \E c \in Conns : OnConnect(c) /\ UNCHANGED beyondHub
    \/ \E c \in Conns : OnClose(c) /\ UNCHANGED beyondHub
    \/ \E c \in Conns, text \in PresenceTexts : OnMessage(c, text)
         /\ UNCHANGED beyondHub

SpecPresence == InitPresence /\ [][NextPresence]_vars

(***************************************************************************)
(* The relay: events of every kind, in both encodings, and a text that is  *)
(* no JSON.                                                                *)
(***************************************************************************)
RelayObjects ==
    {AddObject, DirectObject("d1", "yo", 2), TypingObject, InviteObject,
     SignalObject("offer", "{sdp}"), SignalObject("call-end", ""),
     [type |-> "presence", userId |-> "u1", isOnline |-> TRUE],
     [type |-> "presence", userId |-> "u1", isOnline |-> FALSE]}

BadText == [enc |-> "bad", obj |-> [type |-> Absent]]

RelayTexts ==
    {[enc |-> e, obj |-> o] : e \in {"canon", "alt"}, o \in RelayObjects}
    \cup {BadText}

Init == InitFrom(<<>>, <<>>)

Next ==
    \/ \E c \in Conns : OnConnect(c) /\ UNCHANGED beyondHub
    \/ \E c \in Conns : OnClose(c) /\ UNCHANGED beyondHub
    \/ \E c \in Conns, text \in RelayTexts : OnMessage(c, text)
         /\ UNCHANGED beyondHub

Spec == Init /\ [][Next]_vars

(***************************************************************************)
(* Malformed and unexpected messages, among well-formed ones: a text that  *)
(* is no JSON, a presence event that lacks userId, an event whose type tag *)
(* is none of the Message union's, and events that repeat an id.           *)
(***************************************************************************)
NoUserPresence == [type |-> "presence", isOnline |-> TRUE]
UnknownObject == [type |-> "noop"]

UnexpectedTexts ==
    {JsonStringify(o) :
        o \in {NoUserPresence, UnknownObject, AddObject,
               DirectObject("d1", "yo", 2),
               [type |-> "presence", userId |-> "u1", isOnline |-> TRUE]}}
    \cup {BadText}

InitUnexpected == InitFrom(<<>>, <<>>)

NextUnexpected ==
    \/ \E c \in HistoryConns : OnConnect(c) /\ UNCHANGED beyondHub
    \/ \E c \in HistoryConns : OnClose(c) /\ UNCHANGED beyondHub
    \/ \E c \in HistoryConns, text \in UnexpectedTexts : OnMessage(c, text)
         /\ UNCHANGED beyondHub

SpecUnexpected == InitUnexpected /\ [][NextUnexpected]_vars

(***************************************************************************)
(* Hub and clients, relay-only events: browsers of u1 and u2 open and      *)
(* close connections and send a typing event, a room invitation and call   *)
(* signals addressed to u2.                                                *)
(***************************************************************************)
ClientObjects ==
    {TypingObject, InviteObject,
     SignalObject("offer", "{sdp}"), SignalObject("offer", "{}"),
     SignalObject("answer", "{}"), SignalObject("call-end", "")}

ClientTexts == {JsonStringify(o) : o \in ClientObjects}

InitClient == InitFrom(<<>>, <<>>)

NextClient ==
    \/ \E c \in HistoryConns, user \in Users : ClientConnects(c, user)
    \/ \E c \in HistoryConns : ClientCloses(c)
    \/ \E c \in HistoryConns, text \in ClientTexts, media \in BOOLEAN :
         ClientSends(c, text, media)

SpecClient == InitClient /\ [][NextClient]_vars

(***************************************************************************)
(* Hub and clients, snapshot and broadcasts: browsers of u1 and u2 open    *)
(* and close connections and send a direct message between u1 and u2, one  *)
(* between u2 and a third user, and an online claim.                       *)
(***************************************************************************)
ForeignDirect ==
    [DirectObject("d2", "yo", 1) EXCEPT !.fromUserId = "u2", !.toUserId = "u3"]

LateTexts ==
    {JsonStringify(o) :
        o \in {DirectObject("d1", "yo", 2), ForeignDirect,
               [type |-> "presence", userId |-> "u1", isOnline |-> TRUE]}}

InitLate == InitFrom(<<>>, <<>>)

NextLate ==
    \/ \E c \in HistoryConns, user \in Users : ClientConnects(c, user)
    \/ \E c \in HistoryConns : ClientCloses(c)
    \/ \E c \in HistoryConns, text \in LateTexts : ClientSends(c, text, TRUE)

SpecLate == InitLate /\ [][NextLate]_vars

(***************************************************************************)
(* The session boundary: requests of either method to the seven paths,     *)
(* with no cookie, an empty one, one with no signature part, one signed    *)
(* with another secret, one of alice that expires after the first reading  *)
(* of the clock and one of alice that lasts; the bodies name bob as the    *)
(* user.                                                                   *)
(***************************************************************************)
Methods == {"GET", "POST"}

ProtectedPaths == {r.path : r \in Routes}

BoundaryCookies ==
    {NoCookie, EmptyCookie, DotlessCookie,
     SessionToken("alice", MaxNow, "guess"),
     SessionToken("alice", 1, AuthSecret),
     SessionToken("alice", MaxNow, AuthSecret)}

BoundaryBody(path) ==
    CASE path = "/api/users/profile" -> [displayName |-> "Neo"]
      [] path = "/api/users/contacts/add" -> [userId |-> "u2"]
      [] path = "/api/direct/send" -> [toUserId |-> "u2", content |-> "Hi"]
      [] path = "/api/rooms/join" -> [roomId |-> "r1", role |-> "creator"]
      [] OTHER -> [k \in {} |-> Absent]

\* The same body with a username of the caller's choosing.
Claiming(body, username) ==
    [k \in DOMAIN body \cup {"username"} |->
        IF k = "username" THEN username ELSE body[k]]

BoundaryRequests ==
    {[method |-> method, path |-> path, cookie |-> cookie,
      body |-> Claiming(BoundaryBody(path), "bob")] :
        method \in Methods, path \in ProtectedPaths, cookie \in BoundaryCookies}

BoundaryIds == {"s1"}

InitHttp == InitFrom(<<>>, <<>>)

NextHttp ==
    \/ \E request \in BoundaryRequests, uuid \in BoundaryIds : Fetch(request, uuid)
    \/ Tick

SpecHttp == InitHttp /\ [][NextHttp]_vars

(***************************************************************************)
(* Room membership: alice and bob, each with a session, join rooms and     *)
(* list them while time passes.  alice joins r1 with and without a name,   *)
(* with either role, an unknown one and none, and r2 with no role; bob     *)
(* joins r1 as creator.                                                    *)
(***************************************************************************)
JoinRoles == {"creator", "member", "owner"}

AliceJoins ==
    {[roomId |-> "r1"], [roomId |-> " r1 ", roomName |-> "Den"], [roomId |-> "r2"],
     [roomName |-> "Den"]} \cup
    {[roomId |-> "r1", role |-> role] : role \in JoinRoles} \cup
    {[roomId |-> "r1", roomName |-> "Den", role |-> role] : role \in JoinRoles}

RoomRequests ==
    {[method |-> "POST", path |-> "/api/rooms/join",
      cookie |-> SessionToken("alice", MaxNow, AuthSecret), body |-> body] :
        body \in AliceJoins} \cup
    {[method |-> "POST", path |-> "/api/rooms/join",
      cookie |-> SessionToken("bob", MaxNow, AuthSecret),
      body |-> [roomId |-> "r1", role |-> "creator"]]} \cup
    {[method |-> "GET", path |-> "/api/rooms",
      cookie |-> SessionToken(name, MaxNow, AuthSecret),
      body |-> [k \in {} |-> Absent]] : name \in {"alice", "bob"}}

InitRooms == InitFrom(<<>>, <<>>)

NextRooms ==
    \/ \E request \in RoomRequests : Fetch(request, "s1")
    \/ Tick

SpecRooms == InitRooms /\ [][NextRooms]_vars

(***************************************************************************)
(* Calls: the browsers of two parties open and close connections, start    *)
(* calls to each other and to a third user and end them; what a component  *)
(* sends reaches the hub in time.                                          *)
(***************************************************************************)
CallConns == {1, 2}

Callees == {"u1", "u2", "u3"}

InitCall == InitFrom(<<>>, <<>>)

\* What the users do.
UserActs ==
    \/ \E c \in CallConns, user \in Users : CallerConnects(c, user)
    \/ \E c \in CallConns : CallerCloses(c)
    \/ \E c \in CallConns, destination \in Callees, media \in BOOLEAN :
         StartVideoCall(c, destination, media)
    \/ \E c \in CallConns : PressEndCall(c)

\* What the socket and the hub do.
HubActs == \E c \in CallConns, media \in BOOLEAN : HubHandles(c, media)

NextCall == UserActs \/ HubActs

SpecCall == InitCall /\ [][NextCall]_vars /\ WF_vars(HubActs)

(***************************************************************************)
(* Invitations: a browser of u1 on connection 1 and one of u2 on           *)
(* connection 2 open and close and send invitations.  The ids of those to  *)
(* u1 come round in a cycle: the first id if u1's component holds none,    *)
(* else the id that follows its newest, or again its newest or its oldest. *)
(* Those to u2 and to a third user carry the first id.                     *)
(***************************************************************************)
InviteConns == {1, 2}

InviteId(n) == "i" \o ToString(n)

InviteNumber(id) == CHOOSE n \in 1..NumInvites : InviteId(n) = id

Invite(n, to) == [InviteObject EXCEPT !.id = InviteId(n), !.toUserId = to]

InviteNumbers ==
    LET all == clients[1].roomInvites
    IN  IF all = <<>> THEN {1}
        ELSE {(InviteNumber(all[1].id) % NumInvites) + 1,
              InviteNumber(all[1].id), InviteNumber(all[Len(all)].id)}

InviteTexts ==
    {JsonStringify(Invite(n, "u1")) : n \in InviteNumbers} \cup
    {JsonStringify(Invite(1, to)) : to \in {"u2", "u3"}}

InitInvites == InitFrom(<<>>, <<>>)

NextInvites ==
    \/ ClientConnects(1, "u1")
    \/ ClientConnects(2, "u2")
    \/ \E c \in InviteConns : ClientCloses(c)
    \/ \E c \in InviteConns, text \in InviteTexts : ClientSends(c, text, TRUE)

SpecInvites == InitInvites /\ [][NextInvites]_vars

(***************************************************************************)
(* Composing: a browser of u1 on connection 1 and one of u2 on connection  *)
(* 2 open and close, load their histories, send each other messages from   *)
(* the compose form at the first reading of the clock, and receive a       *)
(* direct-add event of a later createdAt, sent twice with different        *)
(* contents.                                                               *)
(***************************************************************************)
ComposeConns == {1, 2}

ComposeIds == {"s1"}

ComposeTexts ==
    {JsonStringify(o) :
        o \in {DirectObject("d1", "yo", MaxNow), DirectObject("d1", "oy", MaxNow)}}

InitCompose == InitFrom(<<>>, <<>>)

NextCompose ==
    \/ ComposerConnects(1, "u1")
    \/ ComposerConnects(2, "u2")
    \/ \E c \in ComposeConns : ClientCloses(c)
    \/ \E c \in ComposeConns, text \in ComposeTexts : ClientSends(c, text, TRUE)
    \/ \E c \in ComposeConns, to \in Users, uuid \in ComposeIds :
         ComposeSubmit(c, to, "Hi", uuid)
    \/ \E c \in ComposeConns : Replied(c)

SpecCompose == InitCompose /\ [][NextCompose]_vars

(***************************************************************************)
(* Restarts: add, update and direct-add events whose writes succeed unless *)
(* a direct-message id repeats, and re-activations of the hub.             *)
(***************************************************************************)
RestartTexts ==
    {JsonStringify(o) :
        o \in {AddObject, [AddObject EXCEPT !.type = "update", !.content = HiBang],
               [AddObject EXCEPT !.id = IdM2],
               DirectObject("d1", "yo", 2), DirectObject("d2", "yo", 1)}}

InitRestart == InitFrom(<<>>, <<>>)

NextRestart ==
    \/ \E c \in HistoryConns : OnConnect(c) /\ UNCHANGED beyondHub
    \/ \E c \in HistoryConns : OnClose(c) /\ UNCHANGED beyondHub
    \/ \E c \in HistoryConns, text \in RestartTexts : OnMessage(c, text)
         /\ UNCHANGED beyondHub
    \/ OnStart /\ UNCHANGED beyondHub

SpecRestart == InitRestart /\ [][NextRestart]_vars

(***************************************************************************)
(* The snapshot: a hub started on stored histories, connections that come  *)
(* and go, online claims of two users, and one event for each history.     *)
(***************************************************************************)
SnapshotTexts ==
    {JsonStringify(o) :
        o \in {AddObject, DirectObject("d1", "yo", 2)}
              \cup [type : {"presence"}, userId : Users, isOnline : {TRUE}]}

InitSnapshot ==
    \E rowsM \in StoredMessages, rowsD \in StoredDirectMessages :
        InitFrom(rowsM, rowsD)

NextSnapshot ==
    \/ \E c \in HistoryConns : OnConnect(c) /\ UNCHANGED beyondHub
    \/ \E c \in HistoryConns : OnClose(c) /\ UNCHANGED beyondHub
    \/ \E c \in HistoryConns, text \in SnapshotTexts : OnMessage(c, text)
         /\ UNCHANGED beyondHub

SpecSnapshot == InitSnapshot /\ [][NextSnapshot]_vars

(***************************************************************************)
(* Properties of the room-message history.                                 *)
(***************************************************************************)
Count(seq, id) == Cardinality({i \in 1..Len(seq) : seq[i].id = id})

ContentOf(seq, id) == {seq[i].content : i \in {j \in 1..Len(seq) : seq[j].id = id}}

\* C1: once the same add event for an id that was not in the history has been
\* handled twice in a row, the history holds exactly one record with that id
\* and the event's content, table messages holds exactly one row with that id
\* and the event's content, and the second handling did not throw.
C1_IdempotentAdd ==
    (last.op = "onMessage" /\ last.again /\ last.text.obj.type = "add")
    => LET o == last.text.obj
       IN  /\ Count(messages, o.id) = 1
           /\ ContentOf(messages, o.id) = {o.content}
           /\ Count(sqlMessages, o.id) = 1
           /\ ContentOf(sqlMessages, o.id) = {o.content}
           /\ ~threw

\* C2: an add or update event for an id already in the history replaces the
\* record at that id's index; the length of the history, the id at every
\* index and every other record stay as they were.
C2_UpdatePreservesOrder ==
    [][(last'.op = "onMessage" /\ last'.found)
       => LET o == last'.text.obj
          IN  /\ Len(messages') = Len(messages)
              /\ \A i \in 1..Len(messages) :
                   /\ messages'[i].id = messages[i].id
                   /\ messages[i].id = o.id => messages'[i] = o
                   /\ messages[i].id # o.id => messages'[i] = messages[i]]_vars

\* An update has just replaced the middle record of a history of three.
C2_Witness ==
    /\ last.op = "onMessage" /\ last.found
    /\ last.text.obj.type = "update"
    /\ Len(messages) = 3
    /\ messages[2] = last.text.obj
    /\ messages[1].id = IdM3 /\ messages[3].id # messages[2].id

\* C3: for every id that an add or update event was handled for, the history
\* holds exactly one record with that id and table messages exactly one row
\* with that id, both with the content of the last such event.
C3_LastPayloadWins ==
    \A id \in MsgIds :
        lastEvent[id] # NoEvent
        => /\ Count(messages, id) = 1
           /\ ContentOf(messages, id) = {lastEvent[id].content}
           /\ Count(sqlMessages, id) = 1
           /\ ContentOf(sqlMessages, id) = {lastEvent[id].content}

\* C4: no two entries of the room-message history have the same id.
C4_UniqueMessageIds ==
    \A i, j \in 1..Len(messages) : i # j => messages[i].id # messages[j].id

\* An event for an id already in a history of three has just been handled.
C4_Witness ==
    /\ last.op = "onMessage" /\ last.found
    /\ Len(messages) = 3
    /\ last.text.obj.type = "add"

(***************************************************************************)
(* Properties of the direct-message history.                               *)
(***************************************************************************)
Ids(seq) == {seq[i].id : i \in 1..Len(seq)}

\* C5: no two entries of the direct-message history have the same id, and the
\* history holds the same ids as table direct_messages.
C5_UniqueDirectIds ==
    /\ \A i, j \in 1..Len(directMessages) :
         i # j => directMessages[i].id # directMessages[j].id
    /\ Ids(directMessages) = Ids(sqlDirectMessages)

\* C6: no step changes or removes an entry of the direct-message history or
\* a row of table direct_messages: both only grow at the end, whatever event
\* is handled, a direct-add that repeats a stored id included.
C6_DirectAppendOnly ==
    [][/\ Len(directMessages') >= Len(directMessages)
       /\ \A i \in 1..Len(directMessages) :
            directMessages'[i] = directMessages[i]
       /\ Len(sqlDirectMessages') >= Len(sqlDirectMessages)
       /\ \A i \in 1..Len(sqlDirectMessages) :
            sqlDirectMessages'[i] = sqlDirectMessages[i]]_vars

\* A direct-add has just repeated a stored id with another content: the first
\* record and its row are as they were.
C6_Witness ==
    /\ last.op = "onMessage"
    /\ last.text.obj = DirectObject("d1", "oy", 2)
    /\ Len(directMessages) >= 2
    /\ directMessages[1] = DirectObject("d1", "yo", 2)
    /\ sqlDirectMessages = <<DirectRow("d1", "yo", 2)>>
    /\ threw

(***************************************************************************)
(* Properties of presence.                                                 *)
(***************************************************************************)
Attributed(userId) == \E c \in connections : connectionUsers[c] = userId

IsOffline(text, userId) ==
    /\ text.obj.type = "presence"
    /\ text.obj.userId = userId
    /\ ~text.obj.isOnline

\* C7: a user id is in the online set exactly when an open connection is
\* attributed to it.
C7_PresenceAccuracy ==
    \A u \in Users : SetHas(onlineUsers, u) <=> Attributed(u)

C9_NoOfflineByClaim ==
    \A d \in Conns, u \in Users :
        \A i \in 1..Len(sent[d]) :
            (IsOffline(sent[d][i], u) /\ ~(last.op = "onMessage" /\ last.conn = d))
            => /\ last.op = "onClose" /\ last.userId = u
               /\ ~Attributed(u)

(***************************************************************************)
(* Properties of the relay.                                                *)
(***************************************************************************)
\* What updatePresence may send after the relay of an online claim.
HubOnline(text) ==
    IF text.obj.type = "presence"
    THEN {<<>>, <<PresenceText(Prop(text.obj, "userId"), TRUE)>>}
    ELSE {<<>>}

RequiredFields(type) ==
    CASE type \in {"add", "update"} -> {"type", "id", "content", "user", "role"}
      [] type = "direct-add" -> {"type"} \cup DirectColumns
      [] type = "presence" -> {"type", "userId", "isOnline"}
      [] type = "signal" ->
           {"type", "fromUserId", "toUserId", "signalType", "payload"}
      [] type = "typing" -> {"type", "fromUserId", "toUserId", "isTyping"}
      [] type = "room-invite" ->
           {"type", "id", "roomId", "roomName", "fromUserId", "fromDisplayName",
            "toUserId", "createdAt"}
      [] OTHER -> {"type"}

\* A text that is no JSON, or an event that lacks a property its type requires.
Malformed(text) ==
    \/ ~JsonParse(text).ok
    \/ ~(RequiredFields(text.obj.type) \subseteq DOMAIN text.obj)

HubFields ==
    <<messages, directMessages, onlineUsers, connectionUsers, sqlMessages,
      sqlDirectMessages>>

\* C11: the handling of a malformed inbound message (a text that is no JSON,
\* or an event that lacks a required property) sends nothing to any connection
\* and leaves both histories, the online set, the attribution of connections
\* and both tables as they were.
C11_MalformedDropped ==
    [][(last'.op = "onMessage" /\ Malformed(last'.text))
       => (sent' = NothingSent /\ UNCHANGED HubFields)]_vars

\* C12: no handling of an inbound message ends by throwing, whether the
\* message is well-formed, is no JSON, carries an unknown type tag or repeats
\* an id already stored.
C12_NeverThrows == last.op = "onMessage" => ~threw

(***************************************************************************)
(* The relay-only events: signal, typing and room-invite.                  *)
(***************************************************************************)
RelayOnly(text) ==
    JsonParse(text).ok /\ text.obj.type \in {"signal", "typing", "room-invite"}

C14_SignalOpacity ==
    (last.op = "onMessage" /\ RelayOnly(last.text)
        /\ last.text.obj.type = "signal")
    => /\ ~threw
       /\ \A d \in connections : sent[d] = <<last.text>>

\* A call-end signal with the empty payload, and an offer whose payload is
\* no JSON, each in an encoding JSON.stringify does not write, have reached
\* two other connections.
C14_Witness ==
    /\ last.op = "onMessage"
    /\ last.text \in {[enc |-> "alt", obj |-> SignalObject("call-end", "")],
                      [enc |-> "alt", obj |-> SignalObject("offer", "{sdp}")]}
    /\ last.text.obj.payload \in {"", "{sdp}"}
    /\ Cardinality(connections \ {last.conn}) = 2
    /\ \A d \in connections : sent[d][1].enc = "alt"

(***************************************************************************)
(* The snapshot sent on connect.                                           *)
(***************************************************************************)
\* C15: when a connection opens, the hub sends to it, in this order, one all
\* event with the whole room-message history, one direct-all event with the
\* whole direct-message history, and then one online presence event for each
\* user in the online set and none for any other user; it sends nothing to
\* any other connection, changes no field and no table, and does not throw.
C15_SnapshotOnConnect ==
    [][(last'.op = "onConnect")
       => LET c == last'.conn
              s == sent'[c]
          IN  /\ Len(s) = 2 + Cardinality(Range(onlineUsers))
              /\ s[1] = JsonStringify([type |-> "all", messages |-> messages])
              /\ s[2] = JsonStringify([type |-> "direct-all",
                                       messages |-> directMessages])
              /\ \A u \in Users :
                    Cardinality({i \in 3..Len(s) : s[i] = PresenceText(u, TRUE)})
                      = IF SetHas(onlineUsers, u) THEN 1 ELSE 0
              /\ \A i \in 3..Len(s) : \E u \in Users : s[i] = PresenceText(u, TRUE)
              /\ \A d \in Conns \ {c} : sent'[d] = <<>>
              /\ UNCHANGED HubFields
              /\ ~threw']_vars

\* A connection has just opened beside another one, on a hub that holds two
\* room messages, two direct messages and two online users: it was sent four
\* events.
C15_Witness ==
    /\ last.op = "onConnect"
    /\ Cardinality(connections) = 2
    /\ Len(messages) = 2 /\ Len(directMessages) = 2 /\ Len(onlineUsers) = 2
    /\ Len(sent[last.conn]) = 4
    /\ sent[last.conn][1].obj.messages = messages
    /\ sent[last.conn][2].obj.messages = directMessages

(***************************************************************************)
(* What clients hold.                                                      *)
(***************************************************************************)
\* The users a component shows as online.
ClientOnline(cl) == {u \in DOMAIN cl.onlineUsers : cl.onlineUsers[u]}

\* C16: of two open connections of the same user, one opened while the hub's
\* histories and online set were empty, which has applied every broadcast
\* since, and one opened later, which started from the snapshot, the
\* components hold the same direct-message list and the same set of online
\* users.  (ChatApp keeps no room-message list: it handles neither all nor
\* add nor update.)
C16_LateJoiner ==
    \A live, late \in connections :
        (clients[live].user = clients[late].user /\ clients[live].sinceStart)
        => /\ clients[late].directMessages = clients[live].directMessages
           /\ ClientOnline(clients[late]) = ClientOnline(clients[live])

\* What a component shows of calls, typing and invitations.
ClientRelayState(cl) ==
    <<cl.callTargetId, cl.callActive, cl.incomingCallFrom, cl.peer,
      cl.typingByUser, cl.roomInvites>>

\* C17: when a signal, typing or room-invite event is handled, the component
\* behind an open connection changes its call state, its typing map or its
\* invitation list only if the event's toUserId is the component's user; a
\* component the event is not addressed to sends nothing either.
C17_RecipientFiltering ==
    [][(last'.op = "onMessage" /\ RelayOnly(last'.text))
       => \A d \in connections :
            ClientRelayState(clients'[d]) # ClientRelayState(clients[d])
               \/ clients'[d].out # <<>>
            => last'.text.obj.toUserId = clients[d].user]_vars

\* An offer, a typing event and a room invitation addressed to u2 have
\* reached a component of u2, which shows them, and a component of u1, which
\* shows nothing of them.
C17_Witness ==
    /\ last.op = "onMessage" /\ RelayOnly(last.text)
    /\ \E d \in connections :
          /\ clients[d].user = "u2"
          /\ clients[d].callActive /\ clients[d].incomingCallFrom = "u1"
          /\ clients[d].roomInvites # <<>>
          /\ clients[d].typingByUser # EmptyMap
    /\ \E d \in connections :
          /\ clients[d].user = "u1"
          /\ ClientRelayState(clients[d]) = ClientRelayState(FreshClient)

(***************************************************************************)
(* The order of relay and reconciliation, and offline claims.              *)
(***************************************************************************)
\* C18: whenever the handling of an inbound event changes a history, the
\* online set, the attribution or a table, or ends by throwing out of the
\* reconciliation, the event's text has been sent to every other open
\* connection, before anything else the handler sent: no event is reflected
\* in the hub's state without having been relayed, and a failed write does
\* not undo or prevent the relay.
C18_BroadcastFirst ==
    [][(last'.op = "onMessage" /\ (threw' \/ HubFields' # HubFields))
       => \A d \in connections \ {last'.conn} :
            sent'[d] # <<>> /\ sent'[d][1] = last'.text]_vars

\* A direct-add that repeats a stored id has just been handled: the INSERT
\* threw after the record was pushed, and the other connection has the
\* event's text.
C18_Witness ==
    /\ last.op = "onMessage" /\ last.text.obj.type = "direct-add"
    /\ threw
    /\ Len(directMessages) > Len(sqlDirectMessages)
    /\ connections \ {last.conn} # {}
    /\ \A d \in connections \ {last.conn} : sent[d] = <<last.text>>

\* C19: the handling of a presence event with isOnline false leaves the
\* online set and the attribution of connections as they were and sends
\* nothing but the relay of the event's own text: no presence event of the
\* hub's making.
C19_OfflineClaimIgnored ==
    [][(last'.op = "onMessage" /\ last'.text.obj.type = "presence"
          /\ ~last'.text.obj.isOnline)
       => /\ onlineUsers' = onlineUsers
          /\ connectionUsers' = connectionUsers
          /\ sent' = [d \in Conns |->
                        IF d \in connections THEN <<last'.text>> ELSE <<>>]
          /\ ~threw']_vars

\* A connection attributed to u1 has just claimed that u1 is offline, beside
\* another open connection: u1 is still in the online set and the connection
\* is still attributed to u1.
C19_Witness ==
    /\ last.op = "onMessage"
    /\ last.text = PresenceText("u1", FALSE)
    /\ connectionUsers[last.conn] = "u1"
    /\ SetHas(onlineUsers, "u1")
    /\ Cardinality(connections) >= 2

(***************************************************************************)
(* Table messages against the room-message history.                        *)
(***************************************************************************)
\* C20: once an add or update event has been handled, table messages holds a
\* row with the event's id, content and role; and at all times a row and a
\* record of the history with the same id have the same content and the same
\* role.
C20_UpsertMirrors ==
    /\ (last.op = "onMessage" /\ IsSave(last.text))
       => \E j \in 1..Len(sqlMessages) :
            /\ sqlMessages[j].id = last.text.obj.id
            /\ sqlMessages[j].content = last.text.obj.content
            /\ sqlMessages[j].role = last.text.obj.role
    /\ \A i \in 1..Len(messages), j \in 1..Len(sqlMessages) :
         messages[i].id = sqlMessages[j].id
         => /\ sqlMessages[j].content = messages[i].content
            /\ sqlMessages[j].role = messages[i].role

(***************************************************************************)
(* Re-activation.                                                          *)
(***************************************************************************)
\* The records of a history without the type tag the events carry.
Data(history) == [i \in 1..Len(history) |-> [history[i] EXCEPT !.type = Absent]]

\* Every record of both histories has its row: no write failed.
AllPersisted ==
    /\ Len(sqlMessages) = Len(messages)
    /\ Len(sqlDirectMessages) = Len(directMessages)

\* C21: when the hub is re-activated after events whose writes all
\* succeeded, the hydrated room-message history and direct-message history
\* hold the same records (id, content and the other stored fields) in the
\* same order as the histories held just before.
C21_HydrationRoundTrip ==
    [][(last'.op = "onStart" /\ AllPersisted)
       => /\ Data(messages') = Data(messages)
          /\ Data(directMessages') = Data(directMessages)]_vars

(***************************************************************************)
(* add against update.                                                     *)
(***************************************************************************)
\* What onMessage makes of the payload o under the type tag.
Saved(o, tag) == Dispatch(Fields, 1, [o EXCEPT !.type = tag])

\* C22: in every state and for every payload, handling the payload as an add
\* and handling it as an update give the same room-message history (the
\* same records, id, content, user and role, in the same order), the same
\* rows of table messages and the same outcome of the write; and every add or
\* update for an id the history lacks appends the event's record at the end,
\* every one for an id it has keeps the length and puts the event's record
\* where the id's record was.
C22_AddIsUpdate ==
    [][/\ \A o \in RoomObjects \cup UpsertObjects :
            LET added == Saved(o, "add")
                updated == Saved(o, "update")
            IN  /\ Data(added.messages) = Data(updated.messages)
                /\ added.sqlMessages = updated.sqlMessages
                /\ added.threw = updated.threw
       /\ (last'.op = "onMessage" /\ IsSave(last'.text))
            => LET o == last'.text.obj
               IN  IF last'.found
                   THEN /\ Len(messages') = Len(messages)
                        /\ \A i \in 1..Len(messages) :
                              messages'[i] =
                                IF messages[i].id = o.id THEN o ELSE messages[i]
                   ELSE messages' = Append(messages, o)]_vars

\* An update for an id the history lacked has just been handled, on a history
\* that held another record: its record is the last of two, and its row the
\* last of two.
C22_Witness ==
    /\ last.op = "onMessage" /\ last.text.obj.type = "update" /\ ~last.found
    /\ Len(messages) = 2 /\ Data(messages)[2] = [last.text.obj EXCEPT !.type = Absent]
    /\ Len(sqlMessages) = 2 /\ sqlMessages[2].id = last.text.obj.id

(***************************************************************************)
(* Online claims.                                                          *)
(***************************************************************************)
\* C23: the handling of a presence event with isOnline true for user U from
\* connection c attributes c to U and no other connection to anyone; if U
\* was not in the online set, U is added and every open connection is sent,
\* after the relay, exactly one online presence event for U of the hub's
\* making; if U was in the online set, the set stays as it was and nothing
\* is sent but the relay.  No other handler, onConnect in particular,
\* attributes a connection to a user.
C23_OnlineTransition ==
    [][/\ (last'.op = "onMessage" /\ last'.text.obj.type = "presence"
             /\ last'.text.obj.isOnline)
          => LET U == last'.text.obj.userId
                 c == last'.conn
                 relay == <<last'.text>>
             IN  /\ connectionUsers' = [connectionUsers EXCEPT ![c] = U]
                 /\ IF SetHas(onlineUsers, U)
                    THEN /\ onlineUsers' = onlineUsers
                         /\ \A d \in connections : sent'[d] = relay
                    ELSE /\ onlineUsers' = Append(onlineUsers, U)
                         /\ \A d \in connections :
                               sent'[d] = relay \o <<PresenceText(U, TRUE)>>
       /\ \A d \in Conns :
            (connectionUsers'[d] # connectionUsers[d]
                /\ connectionUsers'[d] # Absent)
            => /\ last'.op = "onMessage" /\ last'.conn = d
               /\ last'.text.obj.type = "presence" /\ last'.text.obj.isOnline
               /\ last'.text.obj.userId = connectionUsers'[d]]_vars

\* A second connection has just claimed u1 online while u1 was in the online
\* set: both connections are attributed to u1 and each was sent the relay
\* only.
C23_Witness ==
    /\ last.op = "onMessage" /\ last.text = PresenceText("u1", TRUE)
    /\ Cardinality({d \in connections : connectionUsers[d] = "u1"}) = 2
    /\ onlineUsers = <<"u1">>
    /\ \A d \in connections : sent[d] = <<last.text>>

\* C27: the direct-message list of the component behind an open connection
\* holds only messages from or to the component's user.
C27_OwnConversationsOnly ==
    \A d \in connections :
        \A i \in 1..Len(clients[d].directMessages) :
            \/ clients[d].directMessages[i].fromUserId = clients[d].user
            \/ clients[d].directMessages[i].toUserId = clients[d].user

(***************************************************************************)
(* The worker and the Auth store.                                          *)
(***************************************************************************)
\* The cookie is a token signed with the worker's secret that has not
\* expired at the reading now of the clock.
HasSession(cookie, now) ==
    /\ cookie.kind = "token"
    /\ cookie.signature = [payload |-> cookie.payload, secret |-> AuthSecret]
    /\ cookie.payload.expiresAt >= now

\* A request has just been answered (the clock stands still meanwhile).
Answered == auth'.now = auth.now /\ http'.method # "none"

\* The answer is 401 with an error body, nothing reached the store.
Refused ==
    /\ http'.status = 401 /\ http'.error
    /\ ~http'.forwarded
    /\ auth' = auth

\* The rows of the store that are not of the user with this id and name.
OthersRows(store, username, id) ==
    [users |-> [name \in DOMAIN store.users \ {username} |-> store.users[name]],
     contacts |-> {pair \in store.contacts : pair[1] # id},
     direct |-> SelectSeq(store.direct, LAMBDA row : row.fromUserId # id),
     rooms |-> SelectSeq(store.rooms, LAMBDA row : row.userId # id)]

\* C26 as stated: a request of any method to one of the seven paths that
\* carries no valid session is answered 401 with an error body and does not
\* reach the store.
C26_AnyMethod ==
    [][(Answered /\ http'.path \in ProtectedPaths
          /\ ~HasSession(http'.cookie, auth.now))
       => Refused]_vars

\* C26, amended: a request to one of the seven routes, path and method, that
\* carries no valid session is answered 401 with an error body and does not
\* reach the store; a request to one of the paths with another method is
\* not answered by the worker's API and does not reach the store either;
\* and a forwarded request acts as the user of the verified token, whatever
\* username the request names: only rows of that user are written.
C26_SessionBoundary ==
    [][Answered
       => /\ (RouteOf(http'.method, http'.path) # Absent
                /\ ~HasSession(http'.cookie, auth.now))
             => Refused
          /\ RouteOf(http'.method, http'.path) = Absent
             => (http'.status = PassedOn /\ ~http'.forwarded /\ auth' = auth)
          /\ http'.forwarded
             => /\ HasSession(http'.cookie, auth.now)
                /\ http'.username = http'.cookie.payload.username
                /\ LET name == http'.cookie.payload.username
                       id == auth.users[name].id
                   IN  OthersRows(auth', name, id) = OthersRows(auth, name, id)]_vars

\* alice has sent a direct message with her session; a later request to
\* send one as bob, with her cookie now expired, has been answered 401.
C26_Witness ==
    /\ Len(auth.direct) = 1 /\ auth.direct[1].fromUserId = "u1"
    /\ http.method = "POST" /\ http.path = "/api/direct/send"
    /\ http.cookie = SessionToken("alice", 1, AuthSecret)
    /\ auth.now > 1
    /\ http.claimed = "bob"
    /\ http.status = 401 /\ ~http.forwarded

\* The row of user_rooms for a user and a room, if there is one.
Memberships(rows, userId, roomId) ==
    {i \in 1..Len(rows) : rows[i].userId = userId /\ rows[i].roomId = roomId}

\* C30: user_rooms never holds two rows for one user and room; and when a
\* join is answered 200, every row there was is still there with its
\* joinedAt, rows of other users and rooms are as they were, a creator is
\* still a creator, a join with role creator leaves the row creator, any
\* other join of a member leaves it member, and a first join adds one row
\* with the clock's reading and the role asked, member unless it is creator.
C30_StickyCreator ==
    [][/\ \A i, j \in 1..Len(auth'.rooms) :
            (auth'.rooms[i].userId = auth'.rooms[j].userId
                /\ auth'.rooms[i].roomId = auth'.rooms[j].roomId)
            => i = j
       /\ (Answered /\ http'.path = "/api/rooms/join" /\ http'.status = 200)
          => LET id == auth.users[http'.username].id
                 roomId == IF http'.asked.roomId = " r1 " THEN "r1"
                           ELSE http'.asked.roomId
                 asCreator == "role" \in DOMAIN http'.asked
                                 /\ http'.asked.role = "creator"
                 had == Memberships(auth.rooms, id, roomId)
             IN  /\ \A i \in 1..Len(auth.rooms) :
                       /\ auth'.rooms[i].userId = auth.rooms[i].userId
                       /\ auth'.rooms[i].roomId = auth.rooms[i].roomId
                       /\ auth'.rooms[i].joinedAt = auth.rooms[i].joinedAt
                       /\ auth.rooms[i].role = "creator"
                          => auth'.rooms[i].role = "creator"
                       /\ i \notin had => auth'.rooms[i] = auth.rooms[i]
                       /\ i \in had
                          => auth'.rooms[i].role =
                               IF asCreator \/ auth.rooms[i].role = "creator"
                               THEN "creator" ELSE "member"
                 /\ IF had # {} THEN Len(auth'.rooms) = Len(auth.rooms)
                    ELSE /\ Len(auth'.rooms) = Len(auth.rooms) + 1
                         /\ LET row == auth'.rooms[Len(auth'.rooms)]
                            IN  /\ row.userId = id /\ row.roomId = roomId
                                /\ row.joinedAt = auth.now
                                /\ row.role = IF asCreator THEN "creator"
                                              ELSE "member"]_vars

\* alice, creator of r1 since the first reading of the clock, has joined it
\* again later as member under another name: she is still creator, the row
\* has its first joinedAt and the new name, and bob's row follows it.
C30_Witness ==
    /\ auth.now = 2
    /\ http.path = "/api/rooms/join" /\ http.status = 200
    /\ http.username = "alice"
    /\ http.asked = [roomId |-> "r1", roomName |-> "Den", role |-> "member"]
    /\ Len(auth.rooms) = 2
    /\ auth.rooms[1] = [userId |-> "u1", roomId |-> "r1", roomName |-> "Den",
                        role |-> "creator", joinedAt |-> 1]
    /\ auth.rooms[2].userId = "u2" /\ auth.rooms[2].joinedAt = 2

(***************************************************************************)
(* Calls.                                                                  *)
(***************************************************************************)
\* A call-end of some component awaits the hub.
EndQueued ==
    \E c \in CallConns : \E i \in 1..Len(clients[c].out) :
        clients[c].out[i].obj.signalType = "call-end"

\* No component has an event that awaits the hub.
Quiet == \A c \in CallConns : clients[c].out = <<>>

\* C25: if from some point on the users do nothing, then whenever a call-end
\* awaits the hub, a state follows in which no component has anything left
\* to send.
C25_TeardownTerminates ==
    (<>[][~UserActs]_vars) => (EndQueued ~> Quiet)

C24_OrderedByCreatedAt ==
    \A d \in connections :
        \A i \in 1..(Len(clients[d].directMessages) - 1) :
            clients[d].directMessages[i].createdAt
                <= clients[d].directMessages[i + 1].createdAt

\* The hub has handled an event: no answer to an HTTP request was handled
\* or asked for, and the Auth store is as it was.
HubStep ==
    /\ auth' = auth
    /\ \A d \in Conns : clients'[d].replies = clients[d].replies
    /\ last'.op = "onMessage"

\* C28: the direct-message list of a component never holds two entries of
\* one id, and a direct-add event whose id a component's list holds leaves
\* that list as it is.
C28_DistinctIds ==
    [][/\ \A d \in connections' :
            LET all == clients'[d].directMessages
            IN  \A i, j \in 1..Len(all) : all[i].id = all[j].id => i = j
       /\ (HubStep /\ last'.text.obj.type = "direct-add")
          => \A d \in connections :
               (\E i \in 1..Len(clients[d].directMessages) :
                    clients[d].directMessages[i].id = last'.text.obj.id)
               => clients'[d].directMessages = clients[d].directMessages]_vars

\* The component of u1 has handled every answer it awaited and holds the
\* message it sent from the compose form and the direct-add d1 as it first
\* came; d1 has just come again with another content.
C28_Witness ==
    /\ 1 \in connections
    /\ last.op = "onMessage" /\ last.text.obj = DirectObject("d1", "oy", MaxNow)
    /\ Len(clients[1].directMessages) = 2
    /\ \E i \in 1..2 : clients[1].directMessages[i] = DirectObject("d1", "yo", MaxNow)
    /\ \E i \in 1..2 : clients[1].directMessages[i].id = "s1"
    /\ clients[1].replies = {}

====
